---------------------------- MODULE Spec2Model ----------------------------
(***************************************************************************)
(* SmarterGPT (src/app.py): the answer-aggregation workflow of             *)
(* initialize().  One script run reads the question and the submit button, *)
(* asks the completion endpoint _REPETITIONS times for an answer and a     *)
(* double-checked answer, joins the collected answers into one delimited   *)
(* block, and sends it through the comparison / final-answer / summary     *)
(* chain before writing the summary.                                       *)
(*                                                                         *)
(* A text is a sequence of tokens.  Every apostrophe and every newline is  *)
(* a token of its own; a maximal stretch of other characters is one token. *)
(* Concatenation is \o, so delimiter occurrences are counted exactly.      *)
(***************************************************************************)
EXTENDS Integers, Sequences, FiniteSets, TLC

\* ------------------------------------------------------------ bounds
MaxRep == 3

\* ------------------------------------------------------------ constants
DEBUG_MODE == FALSE

INITIAL_Q_PROMPT ==
    <<"Answer the following carefully. Reflect on your answer ", "\n">>

DOUBLE_CHECKER_PROMPT ==
    <<"You are given a question and an answer below. The answer may be wrong so double check the following question and answer:">>

COMPARISON_PROMPT(repetition, q) ==
    <<"You are a researcher investigating the ">> \o repetition
    \o <<" answers to the question [[">> \o q
    \o <<"]], each answer delimited by ", "'", "'", "'",
         ".     Compare and contrast these answers. Let", "'",
         "s think about this step by step to make sure we find all inconsistencies.">>

FINAL_ANSWER_PROMPT ==
    <<"You are a resolver tasked to 1) find the best answer based on a compare-contrast opinion below, delimited by <<< and >>>     2) Improve on the answer. Let",
      "'",
      "s think about this step by step to make sure we have the correct answer.">>

SUMMARY_PROMPT ==
    <<"Summarize the following answer to be more concise and straight to the point. Remove any unnecessary explanation: ">>

\* ------------------------------------------------------------ texts
Delimiter == <<"'", "'", "'">>

SeparatorPlain == Delimiter

\* the argument of join at line 126
Separator == Delimiter \o <<"\n">> \o Delimiter

Digits == <<"0", "1", "2", "3", "4", "5", "6", "7", "8", "9">>

RECURSIVE IntToText(_)
\* str(n) as applied by str.format to the repetition count
IntToText(n) ==
    IF n < 10 THEN <<Digits[n + 1]>>
    ELSE IntToText(n \div 10) \o <<Digits[(n % 10) + 1]>>

RECURSIVE Join(_, _)
\* sep.join(parts)
Join(sep, parts) ==
    IF Len(parts) = 0 THEN <<>>
    ELSE IF Len(parts) = 1 THEN parts[1]
    ELSE parts[1] \o sep \o Join(sep, Tail(parts))

\* "{initial_q_prompt} Question: {question}"
initial_q_template(initial_q_prompt, q) ==
    initial_q_prompt \o <<" Question: ">> \o q

\* "{double_checker_prompt} Question: {question} Answer: {answer}"
double_checker_template(double_checker_prompt, q, answer) ==
    double_checker_prompt \o <<" Question: ">> \o q \o <<" Answer: ">> \o answer

comparison_template_swapped(comparison_prompt, ans) ==
    ans \o <<" ">> \o comparison_prompt

\* "{comparison_prompt} {answers}"
comparison_template(comparison_prompt, ans) ==
    comparison_prompt \o <<" ">> \o ans

\* "{final_answer_prompt} <<<{comparison}>>>"
final_answer_template(final_answer_prompt, comparison) ==
    final_answer_prompt \o <<" <<<">> \o comparison \o <<">>>">>

\* "{summary_prompt} {final_answer}"
summary_template(summary_prompt, fa) ==
    summary_prompt \o <<" ">> \o fa

\* ------------------------------------------------------------ inputs
\* what st.text_input can hold: nothing, a plain question, a question
\* ending in an apostrophe, a question that contains the delimiter
Questions ==
    { <<>>, <<"What is 2+2?">>, <<"What is 2+2", "'">>,
      <<"What is ", "'", "'", "'", "2+2", "'", "'", "'", "?">> }

\* the fixed text the completion endpoint may return instead of echoing
\* its instruction: wrapped in apostrophes, without the delimiter
AnswerTexts == { <<"'", "'", "4", "'", "'">> }

\* the texts the completion endpoint may return for an instruction
Replies(instruction) == {instruction} \cup AnswerTexts

\* ------------------------------------------------------------ state
VARIABLES
    pc,                 \* position of the script run
    repetitions,        \* _REPETITIONS
    question,           \* st.text_input
    submit_button,      \* st.button
    x,                  \* loop index
    output,             \* output of question_chain for the current repetition
    initial_answers,    \* Answer Collection
    checked_answer,     \* checked-only collection
    answers,            \* aggregated block
    formatted_comparison_prompt,
    final_answer,       \* outputs of sequential_chain
    displayed,          \* texts written to the page by st.write
    error,              \* an exception left initialize()
    calls,              \* this run's completion-endpoint calls, in issue order
    stale               \* an earlier run appended to its Answer Collection

vars == <<pc, repetitions, question, submit_button, x, output, initial_answers,
          checked_answer, answers, formatted_comparison_prompt, final_answer,
          displayed, error, calls, stale>>

NoOutput == [answer |-> <<>>, checked_answer |-> <<>>]
NoFinal == [comparison |-> <<>>, final_answer |-> <<>>, summary |-> <<>>]

Ended == {"idle", "skipped", "done", "aborted"}
Waiting == {"wait_answer", "wait_checked", "wait_comparison",
            "wait_final_answer", "wait_summary"}

Init ==
    /\ pc = "idle"
    /\ repetitions \in 0..MaxRep
    /\ question = <<>>
    /\ submit_button = FALSE
    /\ x = 0
    /\ output = NoOutput
    /\ initial_answers = <<>>
    /\ checked_answer = <<>>
    /\ answers = <<>>
    /\ formatted_comparison_prompt = <<>>
    /\ final_answer = NoFinal
    /\ displayed = <<>>
    /\ error = FALSE
    /\ calls = <<>>
    /\ stale = FALSE

\* one call of a chain's LLM: the instruction goes to the endpoint
Issue(chain, instruction) ==
    calls' = Append(calls, [chain |-> chain, rep |-> x,
                            instruction |-> instruction,
                            returned |-> FALSE, result |-> <<>>])

\* the endpoint returns text for the pending call
Return(resp) ==
    calls' = [calls EXCEPT ![Len(calls)].returned = TRUE,
                           ![Len(calls)].result = resp]

\* the instruction of the call the endpoint is working on
Pending == IF calls = <<>> THEN <<>> ELSE calls[Len(calls)].instruction

RunGuardNoQuestion(q, button) == button

\* line 107
RunGuard(q, button) == button /\ q # <<>>

RunMutKeep(q, button) ==
    /\ pc \in Ended
    /\ question' = q
    /\ submit_button' = button
    /\ stale' = (stale \/ Len(initial_answers) > 0)
    /\ x' = 0
    /\ output' = NoOutput
    /\ answers' = <<>>
    /\ formatted_comparison_prompt' = <<>>
    /\ final_answer' = NoFinal
    /\ displayed' = <<>>
    /\ error' = FALSE
    /\ calls' = <<>>
    /\ pc' = IF RunGuard(q, button) THEN "loop" ELSE "skipped"
    /\ UNCHANGED <<repetitions, initial_answers, checked_answer>>

\* a script run: initialize() up to the test at line 107
Run(q, button) ==
    /\ pc \in Ended
    /\ question' = q
    /\ submit_button' = button
    /\ stale' = (stale \/ Len(initial_answers) > 0)
    /\ x' = 0
    /\ output' = NoOutput
    /\ initial_answers' = <<>>
    /\ checked_answer' = <<>>
    /\ answers' = <<>>
    /\ formatted_comparison_prompt' = <<>>
    /\ final_answer' = NoFinal
    /\ displayed' = <<>>
    /\ error' = FALSE
    /\ calls' = <<>>
    /\ pc' = IF RunGuard(q, button) THEN "loop" ELSE "skipped"
    /\ UNCHANGED repetitions

LoopContinuesInclusive == x <= repetitions

\* for x in range(_REPETITIONS)
LoopContinues == x < repetitions

\* question_chain, first chain: initial_q_chain
IssueInitialQ ==
    /\ pc = "loop"
    /\ LoopContinues
    /\ Issue("initial_q", initial_q_template(INITIAL_Q_PROMPT, question))
    /\ pc' = "wait_answer"
    /\ UNCHANGED <<repetitions, question, submit_button, x, output,
                   initial_answers, checked_answer, answers,
                   formatted_comparison_prompt, final_answer, displayed,
                   error, stale>>

ReturnAnswer(resp) ==
    /\ pc = "wait_answer"
    /\ Return(resp)
    /\ output' = [output EXCEPT !.answer = resp]
    /\ pc' = "check"
    /\ UNCHANGED <<repetitions, question, submit_button, x, initial_answers,
                   checked_answer, answers, formatted_comparison_prompt,
                   final_answer, displayed, error, stale>>

DoubleCheckInputFirst ==
    IF Len(initial_answers) > 0 THEN initial_answers[1] ELSE output.answer

\* the 'answer' input of double_checker_chain: initial_q_chain's output
DoubleCheckInput == output.answer

\* question_chain, second chain: double_checker_chain
IssueDoubleCheck ==
    /\ pc = "check"
    /\ Issue("double_checker",
             double_checker_template(DOUBLE_CHECKER_PROMPT, question,
                                     DoubleCheckInput))
    /\ pc' = "wait_checked"
    /\ UNCHANGED <<repetitions, question, submit_button, x, output,
                   initial_answers, checked_answer, answers,
                   formatted_comparison_prompt, final_answer, displayed,
                   error, stale>>

CollectCheckedOnly(coll, out) == Append(coll, out.checked_answer)

CollectCheckedFirst(coll, out) ==
    Append(Append(coll, out.checked_answer), out.answer)

\* lines 120-121
Collect(coll, out) == Append(Append(coll, out.answer), out.checked_answer)

\* question_chain returns; lines 120-122
ReturnChecked(resp) ==
    /\ pc = "wait_checked"
    /\ Return(resp)
    /\ LET out == [output EXCEPT !.checked_answer = resp]
       IN /\ output' = out
          /\ initial_answers' = Collect(initial_answers, out)
          /\ checked_answer' = Append(checked_answer, out.checked_answer)
    /\ x' = x + 1
    /\ pc' = "loop"
    /\ UNCHANGED <<repetitions, question, submit_button, answers,
                   formatted_comparison_prompt, final_answer, displayed,
                   error, stale>>

\* lines 126-128
Enclose(coll) == Delimiter \o Join(Separator, coll) \o Delimiter

\* lines 126-132
Aggregate ==
    /\ pc = "loop"
    /\ ~LoopContinues
    /\ answers' = Enclose(initial_answers)
    /\ formatted_comparison_prompt' =
           COMPARISON_PROMPT(IntToText(repetitions), question)
    /\ pc' = "compare"
    /\ UNCHANGED <<repetitions, question, submit_button, x, output,
                   initial_answers, checked_answer, final_answer, displayed,
                   error, calls, stale>>

\* sequential_chain, first chain: comparison_chain
IssueComparison ==
    /\ pc = "compare"
    /\ Issue("comparison",
             comparison_template(formatted_comparison_prompt, answers))
    /\ pc' = "wait_comparison"
    /\ UNCHANGED <<repetitions, question, submit_button, x, output,
                   initial_answers, checked_answer, answers,
                   formatted_comparison_prompt, final_answer, displayed,
                   error, stale>>

ReturnComparison(resp) ==
    /\ pc = "wait_comparison"
    /\ Return(resp)
    /\ final_answer' = [final_answer EXCEPT !.comparison = resp]
    /\ pc' = "resolve"
    /\ UNCHANGED <<repetitions, question, submit_button, x, output,
                   initial_answers, checked_answer, answers,
                   formatted_comparison_prompt, displayed, error, stale>>

FinalAnswerInputBlock == answers

\* the 'comparison' input of final_answer_chain: comparison_chain's output
FinalAnswerInput == final_answer.comparison

\* sequential_chain, second chain: final_answer_chain
IssueFinalAnswer ==
    /\ pc = "resolve"
    /\ Issue("final_answer",
             final_answer_template(FINAL_ANSWER_PROMPT, FinalAnswerInput))
    /\ pc' = "wait_final_answer"
    /\ UNCHANGED <<repetitions, question, submit_button, x, output,
                   initial_answers, checked_answer, answers,
                   formatted_comparison_prompt, final_answer, displayed,
                   error, stale>>

ReturnFinalAnswer(resp) ==
    /\ pc = "wait_final_answer"
    /\ Return(resp)
    /\ final_answer' = [final_answer EXCEPT !.final_answer = resp]
    /\ pc' = "summarize"
    /\ UNCHANGED <<repetitions, question, submit_button, x, output,
                   initial_answers, checked_answer, answers,
                   formatted_comparison_prompt, displayed, error, stale>>

\* sequential_chain, third chain: summary_chain
IssueSummary ==
    /\ pc = "summarize"
    /\ Issue("summary",
             summary_template(SUMMARY_PROMPT, final_answer.final_answer))
    /\ pc' = "wait_summary"
    /\ UNCHANGED <<repetitions, question, submit_button, x, output,
                   initial_answers, checked_answer, answers,
                   formatted_comparison_prompt, final_answer, displayed,
                   error, stale>>

ReturnSummary(resp) ==
    /\ pc = "wait_summary"
    /\ Return(resp)
    /\ final_answer' = [final_answer EXCEPT !.summary = resp]
    /\ pc' = "write"
    /\ UNCHANGED <<repetitions, question, submit_button, x, output,
                   initial_answers, checked_answer, answers,
                   formatted_comparison_prompt, displayed, error, stale>>

\* lines 138-149
WriteSummary ==
    /\ pc = "write"
    /\ displayed' =
         (IF DEBUG_MODE
             THEN <<answers, Join(Separator, checked_answer)>>
             ELSE <<>>) \o <<final_answer.summary>>
    /\ pc' = "done"
    /\ UNCHANGED <<repetitions, question, submit_button, x, output,
                   initial_answers, checked_answer, answers,
                   formatted_comparison_prompt, final_answer, error, calls,
                   stale>>

RetryPosition ==
    CASE pc = "wait_answer" -> "loop"
      [] pc = "wait_checked" -> "check"
      [] pc = "wait_comparison" -> "compare"
      [] pc = "wait_final_answer" -> "resolve"
      [] pc = "wait_summary" -> "summarize"
      [] OTHER -> pc

EndpointFailsRetry ==
    /\ pc \in Waiting
    /\ pc' = RetryPosition
    /\ UNCHANGED <<repetitions, question, submit_button, x, output,
                   initial_answers, checked_answer, answers,
                   formatted_comparison_prompt, final_answer, displayed,
                   error, calls, stale>>

\* the pending call raises; nothing in initialize() catches it
EndpointFails ==
    /\ pc \in Waiting
    /\ error' = TRUE
    /\ pc' = "aborted"
    /\ UNCHANGED <<repetitions, question, submit_button, x, output,
                   initial_answers, checked_answer, answers,
                   formatted_comparison_prompt, final_answer, displayed,
                   calls, stale>>

Next ==
    \/ \E q \in Questions, button \in BOOLEAN : Run(q, button)
    \/ IssueInitialQ
    \/ \E resp \in Replies(Pending) : ReturnAnswer(resp)
    \/ IssueDoubleCheck
    \/ \E resp \in Replies(Pending) : ReturnChecked(resp)
    \/ Aggregate
    \/ IssueComparison
    \/ \E resp \in Replies(Pending) : ReturnComparison(resp)
    \/ IssueFinalAnswer
    \/ \E resp \in Replies(Pending) : ReturnFinalAnswer(resp)
    \/ IssueSummary
    \/ \E resp \in Replies(Pending) : ReturnSummary(resp)
    \/ WriteSummary
    \/ EndpointFails

Spec == Init /\ [][Next]_vars

\* ------------------------------------------------------------ call log
Min(a, b) == IF a < b THEN a ELSE b

RepetitionChains == {"initial_q", "double_checker"}
SynthesisChains == {"comparison", "final_answer", "summary"}

RepetitionCalls ==
    Cardinality({k \in 1..Len(calls) : calls[k].chain \in RepetitionChains})

SynthesisCalls ==
    Cardinality({k \in 1..Len(calls) : calls[k].chain \in SynthesisChains})

\* the aggregated block exists
Aggregated == answers # <<>>

\* the repetition loop has finished and aggregation starts
AggregationStarts == pc = "loop" /\ ~LoopContinues

\* answers returned to this run's repetition calls, in call order
ReturnedAnswers == [k \in 1..Min(Len(calls), 2 * repetitions) |-> calls[k].result]

RawAnswer(i) == calls[2 * i + 1].result
CheckedAnswer(i) == calls[2 * i + 2].result

\* ------------------------------------------------------------ delimiter
HasDelimiterAt(s, k) ==
    /\ k >= 1
    /\ k + 2 <= Len(s)
    /\ SubSeq(s, k, k + 2) = Delimiter

ContainsDelimiter(s) == \E k \in 1..Len(s) : HasDelimiterAt(s, k)

RECURSIVE CountFrom(_, _)
\* non-overlapping occurrences of the delimiter from position k on,
\* scanning left to right as str.count does
CountFrom(s, k) ==
    IF k + 2 > Len(s) THEN 0
    ELSE IF HasDelimiterAt(s, k) THEN 1 + CountFrom(s, k + 3)
    ELSE CountFrom(s, k + 1)

CountDelimiter(s) == CountFrom(s, 1)

StartsWithDelimiter(s) == HasDelimiterAt(s, 1)
EndsWithDelimiter(s) == HasDelimiterAt(s, Len(s) - 2)

\* the block without its first and last three characters
Interior(s) == SubSeq(s, 4, Len(s) - 3)

NoAnswerHasDelimiter ==
    \A k \in 1..Len(initial_answers) : ~ContainsDelimiter(initial_answers[k])

\* ------------------------------------------------------------ claims

\* C1: when the repetition loop has finished and aggregation starts, the
\* Answer Collection holds exactly 2*R strings, the raw answer and the
\* double-checked answer of every repetition.
C1_CollectionSize ==
    (AggregationStarts \/ Aggregated) =>
        /\ Len(initial_answers) = 2 * repetitions
        /\ \A i \in 0..(repetitions - 1) :
              /\ \E k \in 1..Len(initial_answers) :
                    initial_answers[k] = RawAnswer(i)
              /\ \E k \in 1..Len(initial_answers) :
                    initial_answers[k] = CheckedAnswer(i)

C1_Witness ==
    /\ AggregationStarts
    /\ question # <<>>
    /\ repetitions = 3
    /\ Len(initial_answers) = 6

\* C2: the Answer Collection and the aggregated block follow repetition
\* order: position 2*i holds repetition i's raw answer, position 2*i+1 its
\* double-checked answer.
C2_RepetitionOrder ==
    Aggregated =>
        /\ Len(initial_answers) = 2 * repetitions
        /\ \A i \in 0..(repetitions - 1) :
              /\ initial_answers[2 * i + 1] = RawAnswer(i)
              /\ initial_answers[2 * i + 2] = CheckedAnswer(i)
        /\ answers = Delimiter \o Join(Separator, ReturnedAnswers) \o Delimiter

C2_Witness ==
    /\ Aggregated
    /\ repetitions >= 2
    /\ RawAnswer(0) # CheckedAnswer(0)
    /\ RawAnswer(0) # RawAnswer(1)

\* C3 as stated: with R >= 1 and no delimiter inside an answer, the block
\* starts and ends with the delimiter and has exactly 2*R - 1 delimiter
\* occurrences in between.
C3_Original ==
    (Aggregated /\ repetitions >= 1 /\ NoAnswerHasDelimiter) =>
        /\ StartsWithDelimiter(answers)
        /\ EndsWithDelimiter(answers)
        /\ CountDelimiter(Interior(answers)) = 2 * repetitions - 1

\* C3 amended: with R >= 1 and no delimiter inside an answer, the block
\* starts and ends with the delimiter and has exactly 2*(2*R - 1)
\* delimiter occurrences in between: every answer is enclosed in its own
\* pair of delimiters and adjacent answers are separated by a newline.
C3_EnclosedBlock ==
    (Aggregated /\ repetitions >= 1 /\ NoAnswerHasDelimiter) =>
        /\ StartsWithDelimiter(answers)
        /\ EndsWithDelimiter(answers)
        /\ CountDelimiter(Interior(answers)) = 2 * (2 * repetitions - 1)
        /\ CountDelimiter(answers) = 4 * repetitions

C3_Witness ==
    /\ Aggregated
    /\ repetitions >= 2
    /\ NoAnswerHasDelimiter
    /\ \E k \in 1..Len(initial_answers) : initial_answers[k] \in AnswerTexts
    /\ \E k \in 1..Len(initial_answers) : initial_answers[k] \notin AnswerTexts

\* C4: a run with an empty question makes no completion-endpoint call and
\* raises no error, whether or not the submit button was pressed.
C4_EmptyQuestionSilent ==
    question = <<>> =>
        /\ calls = <<>>
        /\ ~error
        /\ displayed = <<>>
        /\ pc \in {"idle", "skipped"}

C4_Witness ==
    /\ pc = "skipped"
    /\ question = <<>>
    /\ submit_button
    /\ stale

\* C5: the repetition phase makes exactly 2*R calls and the comparison /
\* final-answer / summary phase exactly 3, 2*R + 3 in a run that ends.
C5_CallCounts ==
    /\ RepetitionCalls <= 2 * repetitions
    /\ SynthesisCalls <= 3
    /\ (AggregationStarts \/ Aggregated) => RepetitionCalls = 2 * repetitions
    /\ pc \in {"write", "done"} =>
          /\ SynthesisCalls = 3
          /\ Len(calls) = 2 * repetitions + 3

C5_Witness ==
    /\ pc = "done"
    /\ repetitions = 3
    /\ RepetitionCalls = 6
    /\ SynthesisCalls = 3

\* the chain that makes the k-th call of a run
ExpectedChain(k) ==
    IF k <= 2 * repetitions
       THEN (IF k % 2 = 1 THEN "initial_q" ELSE "double_checker")
       ELSE <<"comparison", "final_answer", "summary">>[k - 2 * repetitions]

PhaseRank ==
    CASE pc \in {"loop", "wait_answer", "check", "wait_checked"} -> 1
      [] pc \in {"compare", "wait_comparison"} -> 2
      [] pc \in {"resolve", "wait_final_answer"} -> 3
      [] pc \in {"summarize", "wait_summary", "write"} -> 4
      [] OTHER -> 5

C6_State ==
    /\ Len(calls) <= 2 * repetitions + 3
    /\ \A k \in 1..Len(calls) :
          /\ calls[k].chain = ExpectedChain(k)
          /\ k < Len(calls) => calls[k].returned
    /\ \A k \in 1..Len(calls) :
          /\ calls[k].chain = "comparison" => Aggregated
          /\ calls[k].chain = "final_answer" =>
                calls[k].instruction =
                    FINAL_ANSWER_PROMPT \o <<" <<<">> \o calls[k - 1].result
                        \o <<">>>">>
          /\ calls[k].chain = "summary" =>
                calls[k].instruction =
                    SUMMARY_PROMPT \o <<" ">> \o calls[k - 1].result
    /\ pc = "done" => Len(calls) = 2 * repetitions + 3

\* C6: the phases run in the order Repeating, Aggregating, Comparing,
\* Resolving, Summarizing, Done; the comparison call comes after all R
\* repetitions, the final-answer call after the comparison call returned
\* and with its output, the summary call after the final-answer call
\* returned and with its output; none is reordered or skipped.
C6_PhaseOrder ==
    /\ []C6_State
    /\ [][pc \notin Ended => PhaseRank' >= PhaseRank]_vars

C6_Witness ==
    /\ pc = "done"
    /\ repetitions >= 2
    /\ final_answer.comparison # answers
    /\ final_answer.comparison # final_answer.final_answer

C7_State ==
    /\ error <=> pc = "aborted"
    /\ pc = "aborted" =>
          /\ displayed = <<>>
          /\ calls # <<>>
          /\ ~calls[Len(calls)].returned
    /\ \A k \in 1..Len(calls) : k < Len(calls) => calls[k].returned

\* C7: a failing completion-endpoint call aborts the run: no later call,
\* no retry of the failed call, nothing displayed.
C7_FailureAborts ==
    /\ []C7_State
    /\ [][(pc \in Waiting /\ calls' = calls) => (pc' = "aborted" /\ error')]_vars
    /\ [][pc = "aborted" => (Len(calls') = 0 /\ pc' \in {"loop", "skipped"})]_vars

C7_Witness ==
    /\ pc = "aborted"
    /\ repetitions = 2
    /\ Len(calls) = 2 * repetitions + 3

AllEcho == \A k \in 1..Len(calls) : calls[k].result = calls[k].instruction

\* the summary an echoing endpoint yields for question q and R = 2
EchoSummary(q) ==
    LET raw == INITIAL_Q_PROMPT \o <<" Question: ">> \o q
        chk == DOUBLE_CHECKER_PROMPT \o <<" Question: ">> \o q
                   \o <<" Answer: ">> \o raw
        D == <<"'", "'", "'">>
        block == D \o raw \o D \o <<"\n">> \o D \o chk \o D \o <<"\n">>
                   \o D \o raw \o D \o <<"\n">> \o D \o chk \o D
        cmp == COMPARISON_PROMPT(<<"2">>, q) \o <<" ">> \o block
        fin == FINAL_ANSWER_PROMPT \o <<" <<<">> \o cmp \o <<">>>">>
    IN  SUMMARY_PROMPT \o <<" ">> \o fin

\* C8: with an endpoint that echoes its instruction, a non-empty question
\* and R = 2, the displayed summary is the composition of the five
\* templates in order.
C8_EchoComposition ==
    (pc = "done" /\ AllEcho /\ repetitions = 2) =>
        displayed = <<EchoSummary(question)>>

C8_Witness ==
    /\ pc = "done"
    /\ AllEcho
    /\ repetitions = 2
    /\ question = <<"What is 2+2?">>

C9_State ==
    /\ (pc = "loop" /\ x = 0) =>
          (initial_answers = <<>> /\ checked_answer = <<>>)
    /\ Aggregated =>
          /\ initial_answers = ReturnedAnswers
          /\ Len(initial_answers) = 2 * repetitions
          /\ Len(checked_answer) = repetitions

C9_FreshCollections ==
    Len(initial_answers') = 0 /\ Len(checked_answer') = 0

\* C9: nothing persists between runs: every run starts with an empty
\* Answer Collection and an empty checked-only collection, and the
\* collection it aggregates holds only its own 2*R answers.
C9_NoPersistence ==
    /\ []C9_State
    /\ [][(pc \in Ended) => C9_FreshCollections]_vars

C9_Witness ==
    /\ stale
    /\ pc = "compare"
    /\ repetitions >= 1

\* C10: in each repetition the double-check call follows the returned
\* raw-answer call and is built from Q and that repetition's raw answer;
\* every initial-question instruction is the same function of Q alone;
\* repetitions run one at a time in increasing index order.
C10_RepetitionIndependence ==
    \A k \in 1..Min(Len(calls), 2 * repetitions) :
        /\ k < Len(calls) => calls[k].returned
        /\ calls[k].rep = (k - 1) \div 2
        /\ k % 2 = 1 =>
              /\ calls[k].chain = "initial_q"
              /\ calls[k].instruction =
                    INITIAL_Q_PROMPT \o <<" Question: ">> \o question
        /\ k % 2 = 0 =>
              /\ calls[k].chain = "double_checker"
              /\ calls[k - 1].returned
              /\ calls[k].instruction =
                    DOUBLE_CHECKER_PROMPT \o <<" Question: ">> \o question
                        \o <<" Answer: ">> \o calls[k - 1].result

C10_Witness ==
    /\ repetitions >= 2
    /\ Len(calls) >= 4
    /\ calls[4].returned
    /\ calls[1].result # calls[3].result

=============================================================================
